---- MODULE Spec2Model ----
(***************************************************************************)
(* The project loader of the simulator, src/simulator/src/data/load.ts:    *)
(* rectifyObjectType, loadModule, removeBugNodes, loadScope and load, as a *)
(* state machine over a heap of nodes and a list of scopes.                *)
(*                                                                         *)
(* The collaborators that load.ts imports (node.ts: loadNode,              *)
(* constructNodeConnections, replace, Node.delete; subcircuit.ts; the      *)
(* module registry; the module list) are not part of the source at hand;   *)
(* they are modelled from the specification's description of them.         *)
(***************************************************************************)
EXTENDS Integers, Sequences, FiniteSets, TLC

VARIABLES
    project,      \* load(data): the ProjectData, or Undefined
    projectName,  \* what setProjectName last set
    globalScope,  \* index into scopes of the focused scope, 0 = undefined
    scopes,       \* every scope created, in creation order
    nodes,        \* the heap of Node objects: id -> [type, parent, connections, deleted]
    sdata,        \* loadScope(scope, data): the ScopeData being loaded
    scope,        \* loadScope / removeBugNodes: index into scopes of their scope
    pc,           \* position in load / loadScope / removeBugNodes
    load_i,       \* load: the loop index i (0-based as in the source)
    simulationArea, \* the clock settings: [timePeriod, clockEnabled]
    circuit_list, \* the tab order: indices into scopes
    effects,      \* the collaborators load has called, in call order
    embed,        \* whether the host runs in embedded display mode
    ls_i,         \* loadScope: the loop index i
    ls_j,         \* loadScope: the loop index j
    rb_i,         \* removeBugNodes: the loop index i
    rb_x,         \* removeBugNodes: the cached length x
    thrown,       \* the exception propagating out of the running function
    phases,       \* the steps of the running loadScope that have completed
    idCounter,    \* generateId(): ids handed out so far
    preloaded,    \* the nodes loadNode created for the running loadScope, in order
    run,          \* harness: which call of removeBugNodes is running
    nodes0,       \* harness: scope.allNodes when removeBugNodes was first called
    afterRun1,    \* harness: scope.allNodes when the first call returned
    finished,     \* history: each scope as it was when its loadScope returned
    restarts      \* harness: times removeBugNodes reset its scan

vars == <<project, projectName, globalScope, scopes, nodes, sdata, scope, pc,
          load_i, simulationArea, circuit_list, effects, embed,
          ls_i, ls_j, rb_i, rb_x, thrown, phases, idCounter,
          preloaded, run, nodes0, afterRun1, finished, restarts>>

\* What only load writes, what only removeBugNodes writes, and the history.
loadVars == <<project, projectName, globalScope, load_i, simulationArea,
              circuit_list, effects, embed>>
rbVars == <<rb_i, rb_x>>
harnessVars == <<run, nodes0, afterRun1, finished, restarts>>

\* An optional value (a field that may be undefined) is <<>> or <<v>>.
None == <<>>
Some(v) == <<v>>
NoError == "none"

\* simulationArea before any project is loaded.
DefaultSimulationArea == [timePeriod |-> 500, clockEnabled |-> TRUE]

\* ------------------------------------------------------------------ bounds
MaxRepairNodes == 4
MaxNodes == 2
MaxElems == 3
MaxScopes == 2
MaxTabs == 3

\* ------------------------------------------------------------ small helpers
Max(a, b) == IF a >= b THEN a ELSE b

RECURSIVE SeqsUpTo(_, _)
SeqsUpTo(S, n) ==
    IF n = 0 THEN {<<>>}
    ELSE LET shorter == SeqsUpTo(S, n - 1)
         IN  shorter \cup {Append(q, e) : q \in {r \in shorter : Len(r) = n - 1}, e \in S}

RECURSIVE Filter(_, _)
Filter(q, drop) ==
    IF q = <<>> THEN <<>>
    ELSE IF Head(q) = drop THEN Filter(Tail(q), drop)
         ELSE <<Head(q)>> \o Filter(Tail(q), drop)

Range(q) == {q[k] : k \in 1..Len(q)}

\* ------------------------------------------------------------ the node heap
NODE_INPUT == 0
NODE_OUTPUT == 1
NODE_INTERMEDIATE == 2

NewNodeId(heap) == Cardinality(DOMAIN heap) + 1

MakeNode(type, parentType) ==
    [type |-> type, parent |-> [objectType |-> parentType],
     connections |-> {}, deleted |-> FALSE]

EmptyScope(id, name) ==
    [id |-> id, name |-> name, allNodes |-> <<>>, elements |-> <<>>,
     Input |-> <<>>, Output |-> <<>>, layout |-> None,
     testbenchData |-> None, verilogMetadata |-> None,
     restrictedCircuitElementsUsed |-> None, reconstructed |-> FALSE]

\* A world is the pair the loader's functions mutate: the node heap and the scopes.
World(h, sc) == [nodes |-> h, scopes |-> sc]

\* Node.delete(): the node leaves its scope's allNodes and its peers' connection
\* lists; nothing else leaves allNodes.
DeleteNode(w, s, id) ==
    [nodes |-> [n \in DOMAIN w.nodes |->
                  IF n = id THEN [w.nodes[n] EXCEPT !.deleted = TRUE, !.connections = {}]
                  ELSE [w.nodes[n] EXCEPT !.connections = @ \ {id}]],
     scopes |-> [w.scopes EXCEPT ![s].allNodes = Filter(@, id)]]

\* ---------------------------------------------------------- removeBugNodes
\* load.ts 188-191: the condition under which a node is deleted.
IsBugNode(n) == n.type # 2 /\ n.parent.objectType = "CircuitElement"

\* load.ts 194: the scan restarts when the length of allNodes differs from x.
ScanMustRestartAlways(len, x) == TRUE

ScanMustRestart(len, x) == len # x

\* load.ts 185: let x = scope.allNodes.length; i = 0.
RemoveBugNodesCall ==
    /\ pc = "rb_call"
    /\ rb_x' = Len(scopes[scope].allNodes)
    /\ rb_i' = 0
    /\ pc' = "rb_loop"
    /\ UNCHANGED <<loadVars, harnessVars, scopes, nodes, sdata, scope,
                   ls_i, ls_j, thrown, phases, idCounter, preloaded>>

\* load.ts 186-198: one iteration of the for loop, its i++ included.
RemoveBugNodesIter ==
    /\ pc = "rb_loop"
    /\ rb_i < rb_x
    /\ LET id == scopes[scope].allNodes[rb_i + 1]
           w0 == World(nodes, scopes)
           w1 == IF IsBugNode(nodes[id]) THEN DeleteNode(w0, scope, id) ELSE w0
           len == Len(w1.scopes[scope].allNodes)
           again == ScanMustRestart(len, rb_x)
       IN  /\ nodes' = w1.nodes
           /\ scopes' = w1.scopes
           /\ rb_i' = (IF again THEN 0 ELSE rb_i) + 1
           /\ rb_x' = IF again THEN len ELSE rb_x
           /\ restarts' = IF again THEN restarts + 1 ELSE restarts
    /\ UNCHANGED <<loadVars, sdata, scope, pc, ls_i, ls_j, thrown, phases,
                   idCounter, preloaded, run, nodes0, afterRun1, finished>>

\* load.ts 186, 199: the loop condition fails and the function returns.
RemoveBugNodesReturn ==
    /\ pc = "rb_loop"
    /\ ~(rb_i < rb_x)
    /\ pc' = "rb_return"
    /\ UNCHANGED <<loadVars, rbVars, harnessVars, scopes, nodes, sdata, scope,
                   ls_i, ls_j, thrown, phases, idCounter, preloaded>>

\* ------------------------------------------------------------ descriptors
\* NodeData as saved: node kind, owning element, adjacency (0-based indices).
NodeDesc(t, p, c) == [type |-> t, parent |-> p, connections |-> c]

\* customData.nodes: one entry per property, in the object's key order; the
\* value n is an index (arr = FALSE, at = <<n>>) or an array of indices.
NodeOverride(prop, arr, at) == [prop |-> prop, arr |-> arr, at |-> at]

\* CircuitElement data as saved; id is the referenced scope of a SubCircuit.
\* Saved without label, propagationDelay and customData.values.
ElemDesc(objectType, overrides, id) ==
    [objectType |-> objectType, nodes |-> overrides, id |-> id,
     label |-> None, propagationDelay |-> None, values |-> <<>>]

\* The same data saved with a label, a propagationDelay and customData.values.
WithProperties(d, label, delay, values) ==
    [d EXCEPT !.label = label, !.propagationDelay = delay, !.values = values]

\* ------------------------------------------------- the module registry
\* metadata: the module-type list loadScope iterates, in its declared order.
moduleList == <<"Input", "Output", "AndGate", "DflipFlop", "Rom", "SubCircuit">>

\* modules: the registered constructors, each with the nodes it constructs.
NodeShape(tag) ==
    CASE tag = "Input" -> <<[prop |-> "output1", type |-> NODE_OUTPUT, n |-> 1, arr |-> FALSE]>>
      [] tag = "Output" -> <<[prop |-> "inp1", type |-> NODE_INPUT, n |-> 1, arr |-> FALSE]>>
      [] tag = "AndGate" -> <<[prop |-> "inp", type |-> NODE_INPUT, n |-> 2, arr |-> TRUE],
                              [prop |-> "output1", type |-> NODE_OUTPUT, n |-> 1, arr |-> FALSE]>>
      [] tag = "DflipFlop" -> <<[prop |-> "dInp", type |-> NODE_INPUT, n |-> 1, arr |-> FALSE],
                                [prop |-> "qOutput", type |-> NODE_OUTPUT, n |-> 1, arr |-> FALSE]>>
      [] tag = "Rom" -> <<[prop |-> "dataOut", type |-> NODE_OUTPUT, n |-> 1, arr |-> FALSE]>>
      [] OTHER -> <<>>

modules == {"Input", "Output", "AndGate", "DflipFlop", "Rom"}

\* The propagationDelay a constructor of the registry gives its element.
DefaultDelay(tag) == IF tag = "DflipFlop" THEN 100 ELSE 10

\* load.ts 116-119: the own properties of the object literal rectify.
RectifyTable == ("FlipFlop" :> "DflipFlop") @@ ("Ram" :> "Rom")

\* load.ts 116-120: rectify is an object literal, so rectify[obj] also finds what
\* the literal inherits from Object.prototype: functions, which are truthy. Used
\* as the key of modules[...], a function stands for its source text.
InheritedByRectify(obj) ==
    CASE obj = "constructor" -> "function Object() { [native code] }"
      [] obj = "toString" -> "function toString() { [native code] }"
      [] obj = "valueOf" -> "function valueOf() { [native code] }"
      [] obj = "hasOwnProperty" -> "function hasOwnProperty() { [native code] }"
      [] OTHER -> ""

\* load.ts 115-121: return rectify[obj] || obj
rectifyObjectType(obj) ==
    IF obj \in DOMAIN RectifyTable THEN RectifyTable[obj]
    ELSE IF InheritedByRectify(obj) # "" THEN InheritedByRectify(obj)
    ELSE obj

\* ------------------------------------------------ node.ts, as specified
Result(w, err) == [w |-> w, err |-> err]

\* loadNode(data, scope): a node of the descriptor's kind and owner, appended
\* to scope.allNodes, not yet connected.
loadNode(w, s, d) ==
    LET id == NewNodeId(w.nodes)
    IN  World([n \in DOMAIN w.nodes \cup {id} |->
                  IF n = id THEN MakeNode(d.type, d.parent) ELSE w.nodes[n]],
              [w.scopes EXCEPT ![s].allNodes = Append(@, id)])

\* Node.connect(other): the connection is entered on both sides.
ConnectOneSided(h, a, b) == [h EXCEPT ![a].connections = @ \cup {b}]

Connect(h, a, b) ==
    [n \in DOMAIN h |->
        IF n = a /\ n = b THEN [h[n] EXCEPT !.connections = @ \cup {a}]
        ELSE IF n = a THEN [h[n] EXCEPT !.connections = @ \cup {b}]
        ELSE IF n = b THEN [h[n] EXCEPT !.connections = @ \cup {a}]
        ELSE h[n]]

\* constructNodeConnections(node, data): connect node to scope.allNodes[k] for
\* every k of the descriptor's adjacency list; an index naming no node throws.
RECURSIVE constructNodeConnections(_, _, _, _)
constructNodeConnections(w, s, id, adj) ==
    IF adj = <<>> THEN Result(w, NoError)
    ELSE LET k == Head(adj)
             all == w.scopes[s].allNodes
         IN  IF k < 0 \/ k >= Len(all) THEN Result(w, "MalformedDescriptor")
             ELSE constructNodeConnections(
                      World(Connect(w.nodes, id, all[k + 1]), w.scopes), s, id, Tail(adj))

\* replace(node, index): the placeholder x is discarded, its connections move to
\* the node y at scope.allNodes[index], and y is returned. No placeholder
\* (x = 0) or no node at the index is a malformed descriptor.
ReplaceKeepingPlaceholder(w, s, x, index) ==
    IF x = 0 \/ index < 0 \/ index >= Len(w.scopes[s].allNodes)
    THEN [w |-> w, node |-> 0, err |-> "MalformedDescriptor"]
    ELSE LET y == w.scopes[s].allNodes[index + 1]
         IN  [w |-> World(Connect(w.nodes, x, y), w.scopes), node |-> y, err |-> NoError]

replace(w, s, x, index) ==
    LET live == Filter(w.scopes[s].allNodes, x)
    IN  IF x = 0 \/ index < 0 \/ index >= Len(live)
        THEN [w |-> w, node |-> 0, err |-> "MalformedDescriptor"]
        ELSE LET y == live[index + 1]
                 cx == w.nodes[x].connections \ {x, y}
                 heap == [n \in DOMAIN w.nodes |->
                            IF n = x THEN [w.nodes[n] EXCEPT !.deleted = TRUE,
                                                             !.connections = {}]
                            ELSE IF n = y THEN
                                [w.nodes[n] EXCEPT !.connections = (@ \ {x}) \cup cx]
                            ELSE IF n \in cx THEN
                                [w.nodes[n] EXCEPT !.connections = (@ \ {x}) \cup {y}]
                            ELSE w.nodes[n]]
             IN  [w |-> World(heap, [w.scopes EXCEPT ![s].allNodes = live]),
                  node |-> y, err |-> NoError]

\* ------------------------------------------------- the constructors
RECURSIVE ShapeCount(_)
ShapeCount(sh) == IF sh = <<>> THEN 0 ELSE Head(sh).n + ShapeCount(Tail(sh))

\* new ModuleClass(x, y, scope, ...): the element joins the scope (and its
\* Input / Output list), and each of its nodes is constructed fresh, owned by
\* the element, unconnected, and appended to scope.allNodes.
Construct(w, s, tag, ref) ==
    LET sh == NodeShape(tag)
        base == Cardinality(DOMAIN w.nodes)
        count == ShapeCount(sh)
        off(k) == ShapeCount(SubSeq(sh, 1, k - 1))
        entry(id) == CHOOSE k \in 1..Len(sh) :
                        base + off(k) < id /\ id <= base + off(k) + sh[k].n
        heap == [id \in DOMAIN w.nodes \cup (base + 1 .. base + count) |->
                    IF id \in DOMAIN w.nodes THEN w.nodes[id]
                    ELSE MakeNode(sh[entry(id)].type, tag)]
        props == {sh[k].prop : k \in 1..Len(sh)}
        at(p) == CHOOSE k \in 1..Len(sh) : sh[k].prop = p
        el == [objectType |-> tag,
               nodes |-> [p \in props |-> [q \in 1..sh[at(p)].n |-> base + off(at(p)) + q]],
               arrays |-> {p \in props : sh[at(p)].arr},
               id |-> ref,
               label |-> Some(""),
               propagationDelay |-> DefaultDelay(tag),
               values |-> <<>>,
               layoutProperties |-> None]
        sc == w.scopes[s]
        e == Len(sc.elements) + 1
    IN  World(heap,
              [w.scopes EXCEPT ![s] =
                  [sc EXCEPT !.allNodes = @ \o [q \in 1..count |-> base + q],
                             !.elements = Append(@, el),
                             !.Input = IF tag = "Input" THEN Append(@, e) ELSE @,
                             !.Output = IF tag = "Output" THEN Append(@, e) ELSE @]])

\* --------------------------------------------------------- loadModule
\* load.ts 166: the index handed to replace for position i of the array n.
OverrideIndexFirst(n, i) == n[1]

OverrideIndex(n, i) == n[i]

\* load.ts 165-167: for (i = 0; i < n.length; i++) obj[node][i] = replace(obj[node][i], n[i]);
\* i here counts from 1; e is the element's place in scope.elements.
RECURSIVE RewireArray(_, _, _, _, _, _)
RewireArray(w, s, e, prop, n, i) ==
    IF i > Len(n) THEN Result(w, NoError)
    ELSE LET obj == w.scopes[s].elements[e]
             x == IF prop \in obj.arrays /\ i <= Len(obj.nodes[prop])
                  THEN obj.nodes[prop][i] ELSE 0
             r == replace(w, s, x, OverrideIndex(n, i))
         IN  IF r.err # NoError THEN Result(r.w, r.err)
             ELSE RewireArray(
                      World(r.w.nodes,
                            [r.w.scopes EXCEPT ![s].elements[e].nodes[prop][i] = r.node]),
                      s, e, prop, n, i + 1)

\* load.ts 169: obj[node] = replace(obj[node], n);
RewireSingle(w, s, e, prop, n) ==
    LET obj == w.scopes[s].elements[e]
        x == IF prop \in DOMAIN obj.nodes /\ prop \notin obj.arrays
             THEN obj.nodes[prop][1] ELSE 0
        r == replace(w, s, x, n)
    IN  IF r.err # NoError THEN Result(r.w, r.err)
        ELSE Result(World(r.w.nodes,
                          [r.w.scopes EXCEPT ![s].elements[e].nodes[prop] = <<r.node>>]),
                    NoError)

\* load.ts 161-172: for (const node in data.customData.nodes) ...
RECURSIVE RewireNodes(_, _, _, _)
RewireNodes(w, s, e, overrides) ==
    IF overrides = <<>> THEN Result(w, NoError)
    ELSE LET o == Head(overrides)
             r == IF o.arr THEN RewireArray(w, s, e, o.prop, o.at, 1)
                  ELSE RewireSingle(w, s, e, o.prop, o.at[1])
         IN  IF r.err # NoError THEN r
             ELSE RewireNodes(r.w, s, e, Tail(overrides))

\* load.ts 150: data.propagationDelay || obj.propagationDelay
RestoredDelay(saved, constructed) ==
    IF saved = None \/ saved[1] = 0 THEN constructed ELSE saved[1]

\* load.ts 145-158: label, delay and the saved values go onto the element e.
RestoreProperties(w, s, e, data) ==
    LET obj == w.scopes[s].elements[e]
        set == [obj EXCEPT
                  !.label = data.label,
                  !.propagationDelay = RestoredDelay(data.propagationDelay, @),
                  !.values = [p \in DOMAIN obj.values \cup DOMAIN data.values |->
                                 IF p \in DOMAIN data.values THEN data.values[p]
                                 ELSE obj.values[p]]]
    IN  World(w.nodes, [w.scopes EXCEPT ![s].elements[e] = set])

\* load.ts 129-177 with an unregistered type made fatal.
LoadModuleThrowingOnUnknown(w, s, data) ==
    LET tag == rectifyObjectType(data.objectType)
    IN  IF tag \notin modules THEN Result(w, "UnresolvedType")
        ELSE LET w1 == Construct(w, s, tag, 0)
                 e == Len(w1.scopes[s].elements)
             IN  RewireNodes(RestoreProperties(w1, s, e, data), s, e, data.nodes)

\* load.ts 129-177
loadModule(w, s, data) ==
    LET tag == rectifyObjectType(data.objectType)
    IN  IF tag \notin modules THEN Result(w, NoError)
        ELSE LET w1 == Construct(w, s, tag, 0)
                 e == Len(w1.scopes[s].elements)
             IN  RewireNodes(RestoreProperties(w1, s, e, data), s, e, data.nodes)

\* loadSubCircuit(data, scope): the element embeds the scope data.id names,
\* which must have completed its reconstruction.
loadSubCircuit(w, s, data) ==
    IF \E k \in 1..Len(w.scopes) : w.scopes[k].id = data.id /\ w.scopes[k].reconstructed
    THEN Result(Construct(w, s, "SubCircuit", data.id), NoError)
    ELSE Result(w, "MissingDependency")

\* ----------------------------------------------------------- loadScope
\* ScopeData as saved. byType maps a module-type name to its elements.
ScopeDesc(id, allNodes, byType, layout, testbenchData) ==
    [id |-> id, name |-> Some("Main"), allNodes |-> allNodes, byType |-> byType,
     layout |-> layout, testbenchData |-> testbenchData,
     verilogMetadata |-> None, restrictedCircuitElementsUsed |-> <<>>]

\* load.ts 207-209
LoadScopeEnter ==
    /\ pc = "ls_call"
    /\ scopes' = [scopes EXCEPT ![scope].restrictedCircuitElementsUsed =
                                    Some(sdata[1].restrictedCircuitElementsUsed)]
    /\ pc' = "ls_nodes"
    /\ ls_i' = 0
    /\ ls_j' = 0
    /\ phases' = {}
    /\ preloaded' = <<>>
    /\ UNCHANGED <<loadVars, rbVars, harnessVars, nodes, sdata, scope, thrown, idCounter>>

\* load.ts 212-217 as a single pass: each node is connected as soon as it is
\* created, to the nodes that exist by then.
LoadNodesConnectingEach ==
    /\ pc = "ls_nodes"
    /\ IF ls_i < Len(sdata[1].allNodes)
       THEN LET w == loadNode(World(nodes, scopes), scope, sdata[1].allNodes[ls_i + 1])
                r == constructNodeConnections(w, scope, NewNodeId(nodes),
                                              sdata[1].allNodes[ls_i + 1].connections)
            IN  /\ nodes' = r.w.nodes
                /\ scopes' = r.w.scopes
                /\ preloaded' = Append(preloaded, NewNodeId(nodes))
                /\ ls_i' = ls_i + 1
                /\ UNCHANGED <<pc, phases>>
       ELSE /\ pc' = "ls_connections"
            /\ ls_i' = 0
            /\ phases' = phases \cup {"nodes"}
            /\ UNCHANGED <<nodes, scopes, preloaded>>
    /\ UNCHANGED <<loadVars, rbVars, harnessVars, sdata, scope, ls_j, thrown, idCounter>>

\* load.ts 212: data.allNodes.map((x) => loadNode(x, scope)), one node a step.
LoadNodes ==
    /\ pc = "ls_nodes"
    /\ IF ls_i < Len(sdata[1].allNodes)
       THEN LET w == loadNode(World(nodes, scopes), scope, sdata[1].allNodes[ls_i + 1])
            IN  /\ nodes' = w.nodes
                /\ scopes' = w.scopes
                /\ preloaded' = Append(preloaded, NewNodeId(nodes))
                /\ ls_i' = ls_i + 1
                /\ UNCHANGED <<pc, phases>>
       ELSE /\ pc' = "ls_connections"
            /\ ls_i' = 0
            /\ phases' = phases \cup {"nodes"}
            /\ UNCHANGED <<nodes, scopes, preloaded>>
    /\ UNCHANGED <<loadVars, rbVars, harnessVars, sdata, scope, ls_j, thrown, idCounter>>

\* load.ts 215-217, one iteration a step.
ConstructConnections ==
    /\ pc = "ls_connections"
    /\ IF ls_i < Len(sdata[1].allNodes)
       THEN LET r == constructNodeConnections(World(nodes, scopes), scope,
                         scopes[scope].allNodes[ls_i + 1],
                         sdata[1].allNodes[ls_i + 1].connections)
            IN  /\ nodes' = r.w.nodes
                /\ thrown' = r.err
                /\ pc' = IF r.err = NoError THEN pc ELSE "ls_threw"
                /\ ls_i' = ls_i + 1
                /\ UNCHANGED phases
       ELSE /\ pc' = "ls_modules"
            /\ ls_i' = 0
            /\ phases' = phases \cup {"connections"}
            /\ UNCHANGED <<nodes, thrown>>
    /\ UNCHANGED <<loadVars, rbVars, harnessVars, scopes, sdata, scope, ls_j,
                   idCounter, preloaded>>

\* The element descriptor the module loop stands at, when it stands at one.
AtElement ==
    /\ pc = "ls_modules"
    /\ ls_i < Len(moduleList)
    /\ moduleList[ls_i + 1] \in DOMAIN sdata[1].byType
    /\ ls_j < Len(sdata[1].byType[moduleList[ls_i + 1]])

CurrentElement == sdata[1].byType[moduleList[ls_i + 1]][ls_j + 1]

\* load.ts 220-234: one step of the nested loops: an element is loaded, or the
\* inner loop ends and i advances, or the outer loop ends.
LoadModules ==
    /\ pc = "ls_modules"
    /\ IF AtElement
       THEN LET w == World(nodes, scopes)
                r == IF moduleList[ls_i + 1] = "SubCircuit"
                     THEN loadSubCircuit(w, scope, CurrentElement)
                     ELSE loadModule(w, scope, CurrentElement)
            IN  /\ nodes' = r.w.nodes
                /\ scopes' = r.w.scopes
                /\ thrown' = r.err
                /\ pc' = IF r.err = NoError THEN pc ELSE "ls_threw"
                /\ ls_j' = ls_j + 1
                /\ UNCHANGED <<ls_i, phases>>
       ELSE IF ls_i < Len(moduleList)
       THEN /\ ls_i' = ls_i + 1
            /\ ls_j' = 0
            /\ UNCHANGED <<nodes, scopes, thrown, pc, phases>>
       ELSE /\ pc' = "ls_wires"
            /\ phases' = phases \cup {"modules"}
            /\ UNCHANGED <<nodes, scopes, thrown, ls_i, ls_j>>
    /\ UNCHANGED <<loadVars, rbVars, harnessVars, sdata, scope, idCounter, preloaded>>

\* load.ts 237-240: the wires recompute their data; removeBugNodes(scope) is called.
UpdateWires ==
    /\ pc = "ls_wires"
    /\ phases' = phases \cup {"wires"}
    /\ pc' = "rb_call"
    /\ UNCHANGED <<loadVars, rbVars, harnessVars, nodes, scopes, sdata, scope,
                   ls_i, ls_j, thrown, idCounter, preloaded>>

\* load.ts 240-254: removeBugNodes has returned; verilog metadata goes to the
\* scope, testbench data to globalScope when there is one.
RestoreMetadata ==
    /\ pc = "rb_return"
    /\ LET d == sdata[1]
           sc1 == IF d.verilogMetadata # None
                  THEN [scopes EXCEPT ![scope].verilogMetadata = d.verilogMetadata]
                  ELSE scopes
       IN  scopes' = IF d.testbenchData # None /\ globalScope # 0
                     THEN [sc1 EXCEPT ![globalScope].testbenchData = d.testbenchData]
                     ELSE sc1
    /\ phases' = phases \cup {"repair"}
    /\ pc' = "ls_layout"
    /\ UNCHANGED <<loadVars, rbVars, harnessVars, nodes, sdata, scope,
                   ls_i, ls_j, thrown, idCounter, preloaded>>

\* load.ts 263-264 with min for max.
LayoutHeightMin(inputs, outputs) == (IF inputs <= outputs THEN inputs ELSE outputs) * 20 + 20

\* load.ts 263-264
LayoutHeight(inputs, outputs) == Max(inputs, outputs) * 20 + 20

\* load.ts 272-276, 286-290: height is a multiple of 20, so height / 2 is exact.
PortY(height, count, i) == height \div 2 - count * 10 + 20 * i + 10

\* load.ts 270-278, 284-292: layoutProperties of the i-th (0-based) port.
PortLayout(x, height, count, i, id) ==
    [x |-> x, y |-> PortY(height, count, i), id |-> id]

\* load.ts 260-294: the layout generated when the descriptor has none.
SynthesizedLayout(inputs, outputs) ==
    [width |-> 100, height |-> LayoutHeight(inputs, outputs),
     title_x |-> 50, title_y |-> 13, titleEnabled |-> "undefined"]

\* load.ts 298-300 switching the title on whatever was saved.
TitleEnabledForced(t) == "true"

\* load.ts 298-300: if (scope.layout.titleEnabled === undefined) titleEnabled = true
TitleEnabledDefault(t) == IF t = "undefined" THEN "true" ELSE t

\* load.ts 256-301
ResolveLayout ==
    /\ pc = "ls_layout"
    /\ LET d == sdata[1]
           sc == scopes[scope]
           nin == Len(sc.Input)
           nout == Len(sc.Output)
           lay == IF d.layout # None THEN d.layout[1] ELSE SynthesizedLayout(nin, nout)
           placed ==
               [e \in 1..Len(sc.elements) |->
                   IF d.layout # None THEN sc.elements[e]
                   ELSE IF \E i \in 1..nin : sc.Input[i] = e
                   THEN LET i == CHOOSE i \in 1..nin : sc.Input[i] = e
                        IN  [sc.elements[e] EXCEPT !.layoutProperties =
                               Some(PortLayout(0, lay.height, nin, i - 1, idCounter + i))]
                   ELSE IF \E i \in 1..nout : sc.Output[i] = e
                   THEN LET i == CHOOSE i \in 1..nout : sc.Output[i] = e
                        IN  [sc.elements[e] EXCEPT !.layoutProperties =
                               Some(PortLayout(lay.width, lay.height, nout, i - 1,
                                               idCounter + nin + i))]
                   ELSE sc.elements[e]]
       IN  /\ scopes' = [scopes EXCEPT ![scope] =
                           [sc EXCEPT !.elements = placed,
                                      !.layout = Some([lay EXCEPT !.titleEnabled =
                                                     TitleEnabledDefault(@)]),
                                      !.reconstructed = TRUE]]
           /\ idCounter' = IF d.layout # None THEN idCounter ELSE idCounter + nin + nout
    /\ phases' = phases \cup {"layout"}
    /\ pc' = "ls_return"
    /\ UNCHANGED <<loadVars, rbVars, harnessVars, nodes, sdata, scope,
                   ls_i, ls_j, thrown, preloaded>>

NextScope ==
    \/ LoadScopeEnter
    \/ LoadNodes
    \/ ConstructConnections
    \/ LoadModules
    \/ UpdateWires
    \/ RemoveBugNodesCall
    \/ RemoveBugNodesIter
    \/ RemoveBugNodesReturn
    \/ RestoreMetadata
    \/ ResolveLayout

\* ------------------------------------------------ the descriptors loaded
AdjLists(n) == {<<>>} \cup {<<k>> : k \in 0..n - 1}

NodeDescs(kinds, n) == {NodeDesc(k[1], k[2], c) : k \in kinds, c \in AdjLists(n)}

NodeListsUpTo(kinds, m) == UNION {[1..n -> NodeDescs(kinds, n)] : n \in 0..m}

\* Orphan ports and internal nodes, as an earlier serializer left them.
OrphanKinds == {<<NODE_INPUT, "CircuitElement">>, <<NODE_INTERMEDIATE, "CircuitElement">>}

\* Override indices: every saved node, and one index past them.
OverrideIndices == 0..MaxNodes

InpOverrides == {NodeOverride("inp", TRUE, at) : at \in SeqsUpTo(OverrideIndices, 2) \ {<<>>}}

RewireOverrides ==
    {<<>>}
    \cup {<<o>> : o \in InpOverrides}
    \cup {<<NodeOverride("output1", FALSE, <<k>>)>> : k \in OverrideIndices}
    \cup {<<o, NodeOverride("output1", FALSE, <<0>>)>> : o \in InpOverrides}

\* One gate rewired onto saved, connected nodes.
RewireScopes ==
    {ScopeDesc(2, ns, ("AndGate" :> <<ElemDesc("AndGate", o, 0)>>), None, None) :
        ns \in NodeListsUpTo(OrphanKinds, MaxNodes), o \in RewireOverrides}

\* Elements as saved under their module-type name: current tags, legacy tags,
\* a tag no constructor is registered for, and subcircuits of scopes 1 and 2.
ModuleEntries ==
    {<<"Input", ElemDesc("Input", <<>>, 0)>>,
     <<"Output", ElemDesc("Output", <<>>, 0)>>,
     <<"AndGate", ElemDesc("AndGate", <<>>, 0)>>,
     <<"AndGate", ElemDesc("Mystery", <<>>, 0)>>,
     <<"DflipFlop", ElemDesc("FlipFlop", <<>>, 0)>>,
     <<"Rom", ElemDesc("Ram", <<>>, 0)>>,
     <<"SubCircuit", ElemDesc("SubCircuit", <<>>, 1)>>,
     <<"SubCircuit", ElemDesc("SubCircuit", <<>>, 2)>>}

RECURSIVE Under(_, _)
Under(entries, key) ==
    IF entries = <<>> THEN <<>>
    ELSE IF Head(entries)[1] = key THEN <<Head(entries)[2]>> \o Under(Tail(entries), key)
         ELSE Under(Tail(entries), key)

ByType(entries) ==
    [key \in {entries[k][1] : k \in 1..Len(entries)} |-> Under(entries, key)]

ModuleScopes ==
    {ScopeDesc(2, <<>>, ByType(entries), None, None) :
        entries \in SeqsUpTo(ModuleEntries, MaxElems)}

PersistedLayouts ==
    {[width |-> 120, height |-> 80, title_x |-> 60, title_y |-> 13, titleEnabled |-> t] :
        t \in {"undefined", "true", "false"}}

LayoutScopes ==
    {ScopeDesc(2, <<>>, ByType(entries), Some(lay), None) :
        entries \in SeqsUpTo({e \in ModuleEntries : e[1] \in {"Input", "Output"}}, 1),
        lay \in PersistedLayouts}

\* Type tags as saved: current, legacy, unregistered, and names that every
\* JavaScript object inherits.
SavedTags == {"AndGate", "DflipFlop", "FlipFlop", "Rom", "Ram", "Mystery",
              "constructor", "toString"}

\* The module-type name an element with that tag is saved under.
SavedUnder(tag) ==
    CASE tag \in {"DflipFlop", "FlipFlop"} -> "DflipFlop"
      [] tag \in {"Rom", "Ram"} -> "Rom"
      [] OTHER -> "AndGate"

SavedLabels == {None, Some("clk")}

\* propagationDelay as saved: absent, or a number.
SavedDelays == {None, Some(0), Some(5)}

SavedValues == {<<>>, ("state" :> 1)}

\* The element's first output rewired onto the saved node, or nothing rewired.
SavedOverrides(tag) ==
    {<<>>} \cup (IF NodeShape(rectifyObjectType(tag)) = <<>> THEN {}
                ELSE LET sh == NodeShape(rectifyObjectType(tag))
                     IN  {<<NodeOverride(sh[Len(sh)].prop, FALSE, <<0>>)>>})

\* One element saved with its properties, beside one saved node.
PropertyScopes ==
    {ScopeDesc(2, <<NodeDesc(NODE_OUTPUT, SavedUnder(tag), <<>>)>>,
               (SavedUnder(tag) :>
                    <<WithProperties(ElemDesc(tag, o, 0), label, delay, values)>>),
               None, None) :
        tag \in SavedTags, o \in UNION {SavedOverrides(t) : t \in SavedTags},
        label \in SavedLabels, delay \in SavedDelays, values \in SavedValues}

ScopeDescs == RewireScopes \cup ModuleScopes \cup LayoutScopes \cup PropertyScopes

\* loadScope(scope, data) on a scope newCircuit has just created, beside an
\* already reconstructed scope 1.
InitScope ==
    /\ sdata \in {Some(d) : d \in ScopeDescs}
    /\ scopes = <<[EmptyScope(1, "Leaf") EXCEPT
                      !.layout = Some([SynthesizedLayout(0, 0) EXCEPT !.titleEnabled = "true"]),
                      !.restrictedCircuitElementsUsed = Some(<<>>),
                      !.reconstructed = TRUE],
                  EmptyScope(2, "Main")>>
    /\ nodes = <<>>
    /\ scope = 2
    /\ pc = "ls_call"
    /\ globalScope = 0
    /\ project = None /\ projectName = None /\ load_i = 0
    /\ simulationArea = DefaultSimulationArea /\ circuit_list = <<1, 2>>
    /\ effects = <<>> /\ finished = <<>> /\ embed = FALSE
    /\ ls_i = 0 /\ ls_j = 0 /\ rb_i = 0 /\ rb_x = 0
    /\ thrown = NoError /\ phases = {} /\ idCounter = 0 /\ preloaded = <<>>
    /\ run = 0 /\ nodes0 = <<>> /\ afterRun1 = <<>> /\ restarts = 0

SpecScope == InitScope /\ [][NextScope]_vars

\* ---------------------------------------------------------------- load
DefaultProjectName == "Untitled"

\* ProjectData as saved.
ProjectDesc(scopeDescs) ==
    [name |-> "Project", scopes |-> scopeDescs, timePeriod |-> None,
     clockEnabled |-> None, orderedTabs |-> None, focussedCircuit |-> None]

\* newCircuit(name, id, isVerilog, isMain): an empty scope keyed by its id.
newCircuit(name, id, isVerilogCircuit, isMainCircuit) ==
    [EmptyScope(id, name) EXCEPT
        !.verilogMetadata = IF isVerilogCircuit \/ isMainCircuit
                            THEN Some([isVerilogCircuit |-> isVerilogCircuit,
                                       isMainCircuit |-> isMainCircuit])
                            ELSE None]

\* String(id) for the ids of the model.
String(id) == CASE id = 0 -> "0" [] id = 1 -> "1" [] id = 2 -> "2" [] id = 3 -> "3"
                [] id = 4 -> "4" [] id = 5 -> "5" [] id = 6 -> "6" [] OTHER -> "n"

\* Array.prototype.indexOf, 0-based, -1 when absent.
IndexOf(list, x) ==
    IF \E k \in 1..Len(list) : list[k] = x
    THEN (CHOOSE k \in 1..Len(list) : list[k] = x /\ \A j \in 1..k - 1 : list[j] # x) - 1
    ELSE -1

\* load.ts 376-378 with the operands of the comparator's subtraction exchanged.
TabKeyNegated(sc, s, tabs) == 0 - IndexOf(tabs, String(sc[s].id))

\* load.ts 376-378: the sort's comparator key of a scope of circuit_list.
TabKey(sc, s, tabs) == IndexOf(tabs, String(sc[s].id))

RECURSIVE InsertByTab(_, _, _, _)
InsertByTab(sorted, s, sc, tabs) ==
    IF sorted = <<>> THEN <<s>>
    ELSE IF TabKey(sc, Head(sorted), tabs) - TabKey(sc, s, tabs) > 0
         THEN <<s>> \o sorted
         ELSE <<Head(sorted)>> \o InsertByTab(Tail(sorted), s, sc, tabs)

\* Array.prototype.sort with that comparator: a stable sort.
RECURSIVE SortByTab(_, _, _)
SortByTab(list, sc, tabs) ==
    IF list = <<>> THEN <<>>
    ELSE InsertByTab(SortByTab(SubSeq(list, 1, Len(list) - 1), sc, tabs),
                     list[Len(list)], sc, tabs)

\* switchCircuit(id): the scope of that id, when there is one, gets the focus.
switchCircuit(sc, focus, id) ==
    IF \E k \in 1..Len(sc) : String(sc[k].id) = id
    THEN CHOOSE k \in 1..Len(sc) : String(sc[k].id) = id
    ELSE focus

\* load.ts 314-322 with the focus cleared above the early return.
FocusClearedFirst(data, focus) == 0

\* load.ts 314-322 without globalScope = undefined.
FocusKept(data, focus) == focus

\* load.ts 314-322: globalScope after the early return or globalScope = undefined.
FocusAfterEnter(data, focus) == IF data = None THEN focus ELSE 0

\* load.ts 309-323: no descriptor: the default name, and return. Otherwise the
\* project's name; the focus is cleared and the scope list reset.
LoadEnter ==
    /\ pc = "load_call"
    /\ IF project = None
       THEN /\ projectName' = Some(DefaultProjectName)
            /\ pc' = "load_return"
            /\ UNCHANGED <<scopes, circuit_list>>
       ELSE /\ projectName' = Some(project[1].name)
            /\ scopes' = <<>>
            /\ circuit_list' = <<>>
            /\ pc' = "load_loop"
    /\ globalScope' = FocusAfterEnter(project, globalScope)
    /\ load_i' = 0
    /\ UNCHANGED <<project, simulationArea, effects, embed, rbVars, harnessVars,
                   nodes, sdata, scope, ls_i, ls_j, thrown, phases, idCounter, preloaded>>

\* load.ts 326 with the scopes taken from the end of the array.
ScopeAtReversed(data, i) == data.scopes[Len(data.scopes) - i]

\* load.ts 326-344: data.scopes[i]
ScopeAt(data, i) == data.scopes[i + 1]

\* load.ts 326-344: the loop ends, or the next scope is created and loadScope
\* is called on it.
LoadLoop ==
    /\ pc = "load_loop"
    /\ IF load_i < Len(project[1].scopes)
       THEN LET d == ScopeAt(project[1], load_i)
                isVerilogCircuit == d.verilogMetadata # None /\ d.verilogMetadata[1].isVerilogCircuit
                isMainCircuit == d.verilogMetadata # None /\ d.verilogMetadata[1].isMainCircuit
            IN  /\ scopes' = Append(scopes,
                        newCircuit(IF d.name = None THEN "Untitled" ELSE d.name[1], d.id,
                                   isVerilogCircuit, isMainCircuit))
                /\ circuit_list' = Append(circuit_list, Len(scopes) + 1)
                /\ scope' = Len(scopes) + 1
                /\ sdata' = Some(d)
                /\ pc' = "ls_call"
       ELSE /\ pc' = "load_restore"
            /\ UNCHANGED <<scopes, circuit_list, scope, sdata>>
    /\ UNCHANGED <<project, projectName, globalScope, load_i, simulationArea, effects,
                   embed, rbVars, harnessVars, nodes, ls_i, ls_j, thrown, phases,
                   idCounter, preloaded>>

\* load.ts 344: the call of loadScope is in no try block: what loadScope throws
\* leaves load.
LoadPropagate ==
    /\ pc = "ls_threw"
    /\ pc' = "load_threw"
    /\ UNCHANGED <<loadVars, rbVars, harnessVars, scopes, nodes, sdata, scope,
                   ls_i, ls_j, thrown, phases, idCounter, preloaded>>

\* load.ts 346-362: loadScope has returned: focus, center, update, backup; i++.
LoadFocus ==
    /\ pc = "ls_return"
    /\ globalScope' = scope
    /\ effects' = effects \o <<IF embed THEN "centerFocus(true)" ELSE "centerFocus(false)",
                               "update", "updateRestrictedElementsInScope",
                               "scheduleBackup">>
    /\ finished' = Append(finished, scopes[scope])
    /\ load_i' = load_i + 1
    /\ pc' = "load_loop"
    /\ UNCHANGED <<project, projectName, simulationArea, circuit_list, embed, rbVars,
                   run, nodes0, afterRun1, restarts, scopes, nodes, sdata, scope,
                   ls_i, ls_j, thrown, phases, idCounter, preloaded>>

\* load.ts 365-392: clock, tab order, focused circuit, refresh flags, one tick.
LoadRestore ==
    /\ pc = "load_restore"
    /\ LET d == project[1]
       IN  /\ simulationArea' =
                  [timePeriod |-> IF d.timePeriod = None \/ d.timePeriod[1] = 0
                                  THEN 500 ELSE d.timePeriod[1],
                   clockEnabled |-> IF d.clockEnabled = None THEN TRUE
                                    ELSE d.clockEnabled[1]]
           /\ circuit_list' = IF d.orderedTabs # None
                              THEN SortByTab(circuit_list, scopes, d.orderedTabs[1])
                              ELSE circuit_list
           /\ globalScope' = IF d.focussedCircuit # None /\ d.focussedCircuit[1] # 0
                             THEN switchCircuit(scopes, globalScope,
                                                String(d.focussedCircuit[1]))
                             ELSE globalScope
    /\ effects' = effects
                    \o (IF embed THEN <<>> ELSE <<"showProperties">>)
                    \o <<"updateSimulationSet", "updateCanvasSet", "gridUpdateSet">>
                    \o (IF embed THEN <<>> ELSE <<"plotArea.reset">>)
                    \o <<"scheduleUpdate">>
    /\ pc' = "load_return"
    /\ UNCHANGED <<project, projectName, load_i, embed, rbVars, harnessVars,
                   scopes, nodes, sdata, scope, ls_i, ls_j, thrown, phases,
                   idCounter, preloaded>>

\* Scopes as a project saves them: empty; one input; two orphan nodes; an
\* unregistered type; a gate whose override index names no node; a testbench;
\* and a subcircuit of each scope id of the project.
ProjectBodies ==
    {ScopeDesc(0, <<>>, <<>>, None, None),
     ScopeDesc(0, <<>>, ByType(<<<<"Input", ElemDesc("Input", <<>>, 0)>>>>), None, None),
     ScopeDesc(0, [n \in 1..2 |-> NodeDesc(NODE_INPUT, "CircuitElement", <<>>)], <<>>,
               None, None),
     ScopeDesc(0, <<>>, ByType(<<<<"AndGate", ElemDesc("Mystery", <<>>, 0)>>>>), None, None),
     ScopeDesc(0, <<>>,
               ByType(<<<<"AndGate",
                          ElemDesc("AndGate",
                                   <<NodeOverride("output1", FALSE, <<MaxNodes>>)>>, 0)>>>>),
               None, None),
     ScopeDesc(0, <<>>, <<>>, None, Some("testData"))}
    \cup {ScopeDesc(0, <<>>, ByType(<<<<"SubCircuit", ElemDesc("SubCircuit", <<>>, r)>>>>),
                    None, None) : r \in 1..MaxScopes}

\* The scope ids of a project are the scopes' places in its array.
BodyProjects ==
    {ProjectDesc([k \in 1..Len(bodies) |-> [bodies[k] EXCEPT !.id = k]]) :
        bodies \in SeqsUpTo(ProjectBodies, MaxScopes)}

\* A project of n empty scopes with ids 1..n.
PlainProject(n) == ProjectDesc([k \in 1..n |-> ScopeDesc(k, <<>>, <<>>, None, None)])

\* timePeriod as saved: absent, or a number.
TimePeriods == {None, Some(0), Some(500), Some(1000)}

\* clockEnabled as saved: absent, or a boolean.
ClockFlags == {None, Some(TRUE), Some(FALSE)}

ClockProjects ==
    {[PlainProject(1) EXCEPT !.timePeriod = t, !.clockEnabled = c] :
        t \in TimePeriods, c \in ClockFlags}

\* orderedTabs as saved: absent, or scope ids as strings, none of them twice,
\* some scopes possibly missing.
TabOrders(n) ==
    {None} \cup {Some(t) : t \in {q \in SeqsUpTo({String(k) : k \in 1..n}, n) :
                                    \A a, b \in 1..Len(q) : a # b => q[a] # q[b]}}

\* focussedCircuit as saved: absent, 0, a scope of the project, or no scope's id.
FocusIds(n) == {None, Some(0)} \cup {Some(k) : k \in 1..n + 1}

TabProjects ==
    UNION {{[PlainProject(n) EXCEPT !.orderedTabs = t, !.focussedCircuit = f] :
               t \in TabOrders(n), f \in FocusIds(n)} : n \in 0..MaxTabs}

Projects == BodyProjects \cup ClockProjects \cup TabProjects

\* load(data) is called with the default scope in place and focused.
Init ==
    /\ project \in {None} \cup {Some(p) : p \in Projects}
    /\ embed \in BOOLEAN
    /\ scopes = <<[EmptyScope(0, "Untitled") EXCEPT !.reconstructed = TRUE]>>
    /\ circuit_list = <<1>>
    /\ globalScope = 1
    /\ nodes = <<>>
    /\ pc = "load_call"
    /\ projectName = None /\ load_i = 0
    /\ simulationArea = DefaultSimulationArea
    /\ effects = <<>> /\ finished = <<>>
    /\ sdata = None /\ scope = 0
    /\ ls_i = 0 /\ ls_j = 0 /\ rb_i = 0 /\ rb_x = 0
    /\ thrown = NoError /\ phases = {} /\ idCounter = 0 /\ preloaded = <<>>
    /\ run = 0 /\ nodes0 = <<>> /\ afterRun1 = <<>> /\ restarts = 0

Next ==
    \/ LoadEnter
    \/ LoadLoop
    \/ LoadScopeEnter
    \/ LoadNodes
    \/ ConstructConnections
    \/ LoadModules
    \/ UpdateWires
    \/ RemoveBugNodesCall
    \/ RemoveBugNodesIter
    \/ RemoveBugNodesReturn
    \/ RestoreMetadata
    \/ ResolveLayout
    \/ LoadPropagate
    \/ LoadFocus
    \/ LoadRestore

Spec == Init /\ [][Next]_vars

\* ------------------------------------------- removeBugNodes, called twice
RepairTypes == {NODE_INPUT, NODE_OUTPUT, NODE_INTERMEDIATE}
RepairParents == {"CircuitElement", "AndGate"}
RepairKinds == {MakeNode(t, p) : t \in RepairTypes, p \in RepairParents}

InitRepair ==
    /\ \E kinds \in SeqsUpTo(RepairKinds, MaxRepairNodes) :
          /\ nodes = [n \in 1..Len(kinds) |-> kinds[n]]
          /\ scopes = <<[EmptyScope(1, "Main") EXCEPT
                           !.allNodes = [n \in 1..Len(kinds) |-> n]]>>
          /\ nodes0 = [n \in 1..Len(kinds) |-> n]
    /\ scope = 1
    /\ pc = "rb_call"
    /\ run = 1
    /\ afterRun1 = <<>>
    /\ restarts = 0
    /\ rb_i = 0 /\ rb_x = 0
    /\ project = None /\ projectName = None /\ globalScope = 0
    /\ simulationArea = DefaultSimulationArea /\ circuit_list = <<1>>
    /\ effects = <<>> /\ finished = <<>> /\ embed = FALSE
    /\ sdata = None /\ load_i = 0 /\ ls_i = 0 /\ ls_j = 0
    /\ thrown = NoError /\ phases = {} /\ idCounter = 0 /\ preloaded = <<>>

\* The harness calls removeBugNodes(scope) a second time on what the first left.
RepairAgain ==
    /\ pc = "rb_return"
    /\ run = 1
    /\ run' = 2
    /\ afterRun1' = scopes[scope].allNodes
    /\ pc' = "rb_call"
    /\ UNCHANGED <<loadVars, rbVars, scopes, nodes, sdata, scope,
                   ls_i, ls_j, thrown, phases, idCounter, preloaded,
                   nodes0, finished, restarts>>

NextRepair ==
    \/ RemoveBugNodesCall
    \/ RemoveBugNodesIter
    \/ RemoveBugNodesReturn
    \/ RepairAgain

\* removeBugNodes is straight-line sequential code: a step that can run, runs.
SpecRepair == InitRepair /\ [][NextRepair]_vars /\ WF_vars(NextRepair)

LiveNodes(s) == Range(scopes[s].allNodes)

\* C1: after removeBugNodes(scope) returns, no node remains in scope.allNodes
\* whose type is not 2 and whose parent's objectType is 'CircuitElement'.
C1_NoBugNodeAfterRepair ==
    pc = "rb_return" => \A id \in LiveNodes(scope) : ~IsBugNode(nodes[id])

\* C2: Graph Repair is idempotent: a second removeBugNodes run in succession
\* leaves the node set the first run left.
C2_RepairIdempotent ==
    (pc = "rb_return" /\ run = 2) => scopes[scope].allNodes = afterRun1

\* C3: removeBugNodes terminates on every finite node set, and it restarts its
\* scan at most as many times as the node set initially had nodes.
C3_RepairTerminates ==
    /\ [](restarts <= Len(nodes0))
    /\ <>(pc = "rb_return" /\ run = 2)

\* C3's case: a run that restarted its scan at least twice has returned.
C3_RestartedAndReturned ==
    pc = "rb_return" /\ run = 1 /\ restarts >= 2 /\ Len(nodes0) = MaxRepairNodes

\* ------------------------------------------------------ loadScope's claims
\* The module loop stands at an element of a generic (non-subcircuit) type.
AtModule == AtElement /\ moduleList[ls_i + 1] # "SubCircuit"

Unresolved(d) == rectifyObjectType(d.objectType) \notin modules

RECURSIVE TagsUnder(_, _)
TagsUnder(descs, key) ==
    IF descs = <<>> THEN <<>>
    ELSE (IF key = "SubCircuit" THEN <<"SubCircuit">>
          ELSE IF Unresolved(Head(descs)) THEN <<>>
          ELSE <<rectifyObjectType(Head(descs).objectType)>>)
         \o TagsUnder(Tail(descs), key)

\* The types of the elements a descriptor's load creates when nothing throws.
RECURSIVE TagsFrom(_, _)
TagsFrom(d, k) ==
    IF k > Len(moduleList) THEN <<>>
    ELSE (IF moduleList[k] \in DOMAIN d.byType
          THEN TagsUnder(d.byType[moduleList[k]], moduleList[k]) ELSE <<>>)
         \o TagsFrom(d, k + 1)

ElementTags(s) == [e \in 1..Len(scopes[s].elements) |-> scopes[s].elements[e].objectType]

\* C4: an element whose rectified type tag has no registered constructor creates
\* nothing and changes nothing in the scope, nothing is thrown, the loop moves to
\* the next descriptor, and a loadScope that returns has created every element
\* with a registered type and has run the wire update, the repair and the layout.
C4_UnresolvedTypeSkipped ==
    /\ [][(AtModule /\ Unresolved(CurrentElement)) =>
            /\ scopes' = scopes
            /\ nodes' = nodes
            /\ thrown' = NoError
            /\ pc' = "ls_modules" /\ ls_i' = ls_i /\ ls_j' = ls_j + 1]_vars
    /\ [](pc = "ls_return" =>
            /\ ElementTags(scope) = TagsFrom(sdata[1], 1)
            /\ {"modules", "wires", "repair", "layout"} \subseteq phases)

\* C4's case: a scope whose first AndGate entry has an unregistered type and is
\* followed by a second entry has been loaded to the end.
C4_LoadedPastUnresolved ==
    /\ pc = "ls_return"
    /\ "AndGate" \in DOMAIN sdata[1].byType
    /\ Len(sdata[1].byType["AndGate"]) >= 2
    /\ Unresolved(sdata[1].byType["AndGate"][1])
    /\ ~Unresolved(sdata[1].byType["AndGate"][2])
    /\ Len(scopes[scope].elements) >= 1

\* A loadModule step that constructs an element and applies its overrides.
RewiringStep == AtModule /\ ~Unresolved(CurrentElement) /\ thrown' = NoError

NewElement == scopes'[scope].elements[Len(scopes'[scope].elements)]

\* C7: after loadModule applies a node-override map, position i of every
\* overridden property references the node loaded from the descriptor index the
\* override names at position i (a single index being position 1).
C7_OverrideReferencesLoadedNode ==
    [][RewiringStep =>
          \A k \in 1..Len(CurrentElement.nodes) :
              LET o == CurrentElement.nodes[k]
              IN  \A i \in 1..Len(o.at) :
                      o.at[i] < Len(sdata[1].allNodes) =>
                          NewElement.nodes[o.prop][i] = preloaded[o.at[i] + 1]]_vars

\* C7's case: a gate whose inputs were overridden onto indices 1 and 0 references
\* the second and the first loaded node, in that order.
C7_InputsRewiredInOrder ==
    /\ pc = "ls_modules"
    /\ Len(preloaded) = 2
    /\ \E e \in 1..Len(scopes[scope].elements) :
          /\ scopes[scope].elements[e].objectType = "AndGate"
          /\ scopes[scope].elements[e].nodes["inp"] = <<preloaded[2], preloaded[1]>>

\* The nodes the element constructed that it no longer references: the placeholders.
Placeholders ==
    (DOMAIN nodes' \ DOMAIN nodes)
        \ UNION {Range(NewElement.nodes[p]) : p \in DOMAIN NewElement.nodes}

\* C8: when loadModule rewires element properties from placeholder nodes onto
\* loaded nodes, every connection a node had before is still present afterwards,
\* and no node is connected to a placeholder afterwards.
C8_RewiringPreservesConnectivity ==
    [][RewiringStep =>
          /\ \A y \in DOMAIN nodes : nodes[y].connections \subseteq nodes'[y].connections
          /\ \A x \in Placeholders : \A n \in DOMAIN nodes' : x \notin nodes'[n].connections]_vars

\* C8's case: an element's output has been rewired onto a loaded node that has a
\* connection, and the placeholder is gone from the scope.
C8_RewiredOntoConnectedNode ==
    /\ pc = "ls_modules"
    /\ \E e \in 1..Len(scopes[scope].elements) :
          /\ scopes[scope].elements[e].objectType = "AndGate"
          /\ \E y \in Range(preloaded) :
                /\ scopes[scope].elements[e].nodes["output1"] = <<y>>
                /\ nodes[y].connections # {}
    /\ \E x \in DOMAIN nodes : nodes[x].deleted /\ x \notin Range(scopes[scope].allNodes)

\* C9: after loadScope completes, node A lists node B as connected if and only
\* if B lists A.
C9_ConnectionsSymmetric ==
    pc = "ls_return" =>
        \A a \in DOMAIN nodes : \A b \in DOMAIN nodes :
            b \in nodes[a].connections <=> a \in nodes[b].connections

\* C9's case: the descriptor names an edge on the first node's side only, and
\* the repair has deleted the second node.
C9_OneSidedEdgeAndDeletion ==
    /\ pc = "ls_return"
    /\ Len(sdata[1].allNodes) = 2
    /\ sdata[1].allNodes[1].connections = <<1>>
    /\ sdata[1].allNodes[2].connections = <<>>
    /\ nodes[preloaded[2]].deleted
    /\ ~nodes[preloaded[1]].deleted

PortLayouts(s, ports) ==
    [i \in 1..Len(ports) |-> scopes[s].elements[ports[i]].layoutProperties]

\* C10: with no persisted layout, the layout has width 100, height
\* max(inputs, outputs) * 20 + 20 and title position (50, 13); the i-th input is
\* placed at (0, height/2 - inputs*10 + 20*i + 10), the i-th output at
\* (100, height/2 - outputs*10 + 20*i + 10), i counting from 0; the non-id fields
\* are a function of the port counts, and the ids are pairwise distinct.
C10_SynthesizedLayout ==
    (pc = "ls_return" /\ sdata[1].layout = None) =>
        LET sc == scopes[scope]
            nin == Len(sc.Input)
            nout == Len(sc.Output)
            h == (IF nin >= nout THEN nin ELSE nout) * 20 + 20
            ins == PortLayouts(scope, sc.Input)
            outs == PortLayouts(scope, sc.Output)
        IN  /\ sc.layout # None
            /\ sc.layout[1].width = 100
            /\ sc.layout[1].height = h
            /\ sc.layout[1].title_x = 50
            /\ sc.layout[1].title_y = 13
            /\ \A i \in 1..nin :
                  /\ ins[i] # None
                  /\ ins[i][1].x = 0
                  /\ ins[i][1].y = h \div 2 - nin * 10 + 20 * (i - 1) + 10
            /\ \A i \in 1..nout :
                  /\ outs[i] # None
                  /\ outs[i][1].x = 100
                  /\ outs[i][1].y = h \div 2 - nout * 10 + 20 * (i - 1) + 10
            /\ Cardinality({ins[i][1].id : i \in 1..nin} \cup {outs[i][1].id : i \in 1..nout})
                   = nin + nout

\* C10's case: two inputs and one output: height 60, inputs at y 20 and 40,
\* the output at y 30.
C10_TwoInputsOneOutput ==
    /\ pc = "ls_return"
    /\ sdata[1].layout = None
    /\ Len(scopes[scope].Input) = 2
    /\ Len(scopes[scope].Output) = 1
    /\ scopes[scope].layout[1].height = 60
    /\ PortLayouts(scope, scopes[scope].Input)[1][1].y = 20
    /\ PortLayouts(scope, scopes[scope].Input)[2][1].y = 40
    /\ PortLayouts(scope, scopes[scope].Output)[1][1].y = 30

\* ----------------------------------------------------------- load's claims
\* C5: when loading a scope fails with a fatal error, the error does not escape
\* load(), and every scope loaded before is as it was when its own load finished.
C5_FatalErrorContained ==
    /\ pc # "load_threw"
    /\ thrown # NoError => \A k \in 1..Len(finished) : scopes[k] = finished[k]

SubRefs(d) ==
    IF "SubCircuit" \in DOMAIN d.byType
    THEN {d.byType["SubCircuit"][j].id : j \in 1..Len(d.byType["SubCircuit"])}
    ELSE {}

\* Every subcircuit of the project references a scope earlier in the array.
WellOrdered(p) ==
    \A k \in 1..Len(p.scopes) : SubRefs(p.scopes[k]) \subseteq {p.scopes[j].id : j \in 1..k - 1}

\* C6: load creates the scopes in descriptor array order, each after the one
\* before it has completed; a subcircuit element exists only where its referenced
\* scope was reconstructed earlier; a load that fails with MissingDependency has a
\* subcircuit whose scope is not earlier in the array, and with every referenced
\* scope earlier in the array no MissingDependency is thrown and a load that
\* returns had them so.
C6_DependencyOrder ==
    (project # None /\ pc # "load_call") =>
        /\ \A k \in 1..Len(scopes) :
              /\ scopes[k].id = project[1].scopes[k].id
              /\ k < Len(scopes) => scopes[k].reconstructed
              /\ \A e \in 1..Len(scopes[k].elements) :
                    scopes[k].elements[e].objectType = "SubCircuit" =>
                        \E j \in 1..k - 1 : /\ scopes[j].id = scopes[k].elements[e].id
                                            /\ scopes[j].reconstructed
        /\ thrown = "MissingDependency" => ~WellOrdered(project[1])
        /\ pc = "load_return" => WellOrdered(project[1])

\* C6's case: a two-scope project whose second scope embeds the first has loaded.
C6_SubcircuitAfterItsScope ==
    /\ pc = "load_return"
    /\ Len(scopes) = 2
    /\ Len(scopes[2].elements) = 1
    /\ scopes[2].elements[1].objectType = "SubCircuit"
    /\ scopes[2].elements[1].id = scopes[1].id

\* C11: after load(data) completes, the clock period is the descriptor's
\* timePeriod when it has one and 500 otherwise, and the clock-enabled flag is
\* the descriptor's clockEnabled when it has one and true otherwise.
C11_ClockRestored ==
    (pc = "load_return" /\ project # None) =>
        /\ simulationArea.timePeriod =
               (IF project[1].timePeriod = None THEN 500 ELSE project[1].timePeriod[1])
        /\ simulationArea.clockEnabled =
               (IF project[1].clockEnabled = None THEN TRUE ELSE project[1].clockEnabled[1])

\* The place in the tab list of the scope standing at place a of circuit_list,
\* -1 when the list does not name it.
TabPlace(a, tabs) == IndexOf(tabs, String(scopes[circuit_list[a]].id))

\* C12: with a persisted tab order, circuit_list after load() is a permutation
\* of the loaded scopes, the scopes the list names stand in the list's order,
\* and the scopes it does not name stand in their original relative order.
C12_TabsReordered ==
    (pc = "load_return" /\ project # None /\ project[1].orderedTabs # None) =>
        LET tabs == project[1].orderedTabs[1]
        IN  /\ Len(circuit_list) = Len(scopes)
            /\ Range(circuit_list) = 1..Len(scopes)
            /\ \A a, b \in 1..Len(circuit_list) :
                  a < b =>
                    /\ (TabPlace(a, tabs) >= 0 /\ TabPlace(b, tabs) >= 0) =>
                          TabPlace(a, tabs) < TabPlace(b, tabs)
                    /\ (TabPlace(a, tabs) < 0 /\ TabPlace(b, tabs) < 0) =>
                          circuit_list[a] < circuit_list[b]

\* C12's case: three scopes loaded in the order 1, 2, 3 and a tab list naming
\* 3 and then 1: scope 2 keeps its place before them, 3 stands before 1.
C12_ListedReversedOneMissing ==
    /\ pc = "load_return"
    /\ project # None
    /\ project[1].orderedTabs = Some(<<"3", "1">>)
    /\ Len(scopes) = 3
    /\ circuit_list = <<2, 3, 1>>

\* The descriptor d with its legacy type tag exchanged for the current one.
WithCurrentTag(d) == [d EXCEPT !.objectType = RectifyTable[@]]

\* C13: an element descriptor with a legacy type tag of the rectification
\* table loads exactly as the same descriptor with the current tag; every tag
\* outside the table is looked up unchanged; rectifying twice equals
\* rectifying once.
C13_LegacyTagLoadsAsCurrent ==
    [][AtModule =>
          LET d == CurrentElement
              tag == d.objectType
          IN  /\ tag \in DOMAIN RectifyTable =>
                    LET r == loadModule(World(nodes, scopes), scope, WithCurrentTag(d))
                    IN  nodes' = r.w.nodes /\ scopes' = r.w.scopes /\ thrown' = r.err
              /\ tag \notin DOMAIN RectifyTable => rectifyObjectType(tag) = tag
              /\ rectifyObjectType(rectifyObjectType(tag)) = rectifyObjectType(tag)]_vars

\* C14: load() called without a descriptor only sets the default project name:
\* the scope list, the focused scope, the clock settings and the tab order are
\* left as they were, no scope or node is created, and no update, backup or
\* simulation tick is scheduled.
C14_NoDescriptorOnlyNamesProject ==
    /\ [][project = None =>
             UNCHANGED <<scopes, nodes, globalScope, simulationArea, circuit_list, effects>>]_vars
    /\ []((project = None /\ pc = "load_return") =>
             projectName = Some(DefaultProjectName))

\* C14's case: load() has returned from a call without a descriptor, the default
\* scope still in place and focused.
C14_ReturnedWithoutDescriptor ==
    /\ project = None
    /\ pc = "load_return"
    /\ projectName = Some(DefaultProjectName)
    /\ Len(scopes) = 1
    /\ globalScope = 1

\* loadScope is running, the removeBugNodes it calls included.
InLoadScope == sdata # None /\ pc \notin {"load_call", "load_loop", "load_restore",
                                          "load_return", "load_threw"}

\* C15: within one loadScope call no connection is built before every node of
\* the descriptor has been created, no element is instantiated before every
\* connection has been built, Graph Repair starts only after every element is
\* loaded and the wires are updated, and the layout is resolved only after
\* Graph Repair has finished.
C15_PhasesInOrder ==
    InLoadScope =>
        /\ (\E n \in Range(preloaded) : nodes[n].connections # {}) =>
               Len(preloaded) = Len(sdata[1].allNodes)
        /\ pc = "ls_connections" => Len(preloaded) = Len(sdata[1].allNodes)
        /\ (scopes[scope].elements # <<>> \/ pc = "ls_modules") =>
               {"nodes", "connections"} \subseteq phases
        /\ pc \in {"rb_call", "rb_loop", "rb_return"} =>
               /\ {"nodes", "connections", "modules", "wires"} \subseteq phases
               /\ ElementTags(scope) = TagsFrom(sdata[1], 1)
               /\ "layout" \notin phases /\ scopes[scope].layout = None
        /\ pc \in {"rb_call", "rb_loop"} => "repair" \notin phases
        /\ (scopes[scope].layout # None \/ pc = "ls_layout") => "repair" \in phases

\* C15's case: a loadScope has returned whose descriptor's first node names the
\* second, created after it, in its adjacency list, and which loaded an element
\* and had a node deleted by Graph Repair.
C15_ForwardReferenceLoaded ==
    /\ pc = "ls_return"
    /\ Len(sdata[1].allNodes) = 2
    /\ sdata[1].allNodes[1].connections = <<1>>
    /\ Len(scopes[scope].elements) = 1
    /\ \E n \in Range(preloaded) : nodes[n].deleted
    /\ phases = {"nodes", "connections", "modules", "wires", "repair", "layout"}

\* The scope a persisted focused-scope id switches the focus to, 0 when the id
\* is absent or names no scope.
PersistedFocus ==
    LET f == project[1].focussedCircuit
    IN  IF f # None /\ \E k \in 1..Len(scopes) : scopes[k].id = f[1]
        THEN CHOOSE k \in 1..Len(scopes) : scopes[k].id = f[1]
        ELSE 0

\* C16: during a project load the scope under construction is never the focused
\* scope: the focus is cleared before the first scope is created, it is set only
\* to a scope whose loadScope has returned, and after the loop it is the last
\* loaded scope unless a persisted focused-scope id switches it.
C16_UnderConstructionNotFocused ==
    (project # None /\ pc # "load_call") =>
        /\ InLoadScope => globalScope # scope
        /\ (pc = "load_loop" /\ load_i = 0) => globalScope = 0
        /\ globalScope # 0 => scopes[globalScope].reconstructed
        /\ pc \notin {"load_return"} => globalScope = load_i
        /\ pc = "load_restore" => globalScope = Len(scopes)
        /\ pc = "load_return" =>
               globalScope = (IF PersistedFocus # 0 THEN PersistedFocus ELSE Len(scopes))

\* C16's case: three scopes were loaded, the third focused last, and the
\* persisted focused-scope id has switched the focus to the first.
C16_FocusSwitchedToPersisted ==
    /\ pc = "load_return"
    /\ project # None
    /\ Len(scopes) = 3
    /\ load_i = 3
    /\ project[1].focussedCircuit = Some(1)
    /\ globalScope = 1

\* C17: during a project load the testbench state built from a scope
\* descriptor's testbench data is attached to the scope reconstructed from that
\* descriptor, for every scope of the project, the first included: once
\* loadScope is past its testbench step, each scope created so far holds the
\* testbench data of its own descriptor and no other.
C17_TestbenchOnItsScope ==
    (project # None /\ pc \in {"ls_layout", "ls_return", "load_loop", "load_restore",
                                "load_return"}) =>
        \A k \in 1..Len(scopes) :
            scopes[k].testbenchData = project[1].scopes[k].testbenchData

\* C18: after loadModule the element's propagation delay is the descriptor's
\* propagationDelay whenever it has one, 0 included, and the delay its
\* constructor gave it only when the descriptor has none.
C18_ExplicitDelayRestored ==
    [][RewiringStep =>
          NewElement.propagationDelay =
              (IF CurrentElement.propagationDelay = None
               THEN DefaultDelay(NewElement.objectType)
               ELSE CurrentElement.propagationDelay[1])]_vars

\* C19: after every loadScope call the scope's layout has a defined
\* titleEnabled flag: a persisted layout is adopted with its explicit flag
\* unchanged, and a persisted layout without the flag and every synthesized
\* layout have titleEnabled = true.
C19_TitleEnabledDefined ==
    pc = "ls_return" =>
        LET lay == scopes[scope].layout[1]
            saved == sdata[1].layout
        IN  /\ lay.titleEnabled \in {"true", "false"}
            /\ saved = None => lay.titleEnabled = "true"
            /\ saved # None =>
                  /\ lay = [saved[1] EXCEPT !.titleEnabled = lay.titleEnabled]
                  /\ saved[1].titleEnabled # "undefined" =>
                        lay.titleEnabled = saved[1].titleEnabled
                  /\ saved[1].titleEnabled = "undefined" => lay.titleEnabled = "true"

\* C19's case: a layout persisted with titleEnabled = false has been adopted,
\* the flag still false.
C19_PersistedFalseKept ==
    /\ pc = "ls_return"
    /\ sdata[1].layout # None
    /\ sdata[1].layout[1].titleEnabled = "false"
    /\ scopes[scope].layout[1].titleEnabled = "false"
    /\ scopes[scope].layout[1].width = 120
====
